---- MODULE Spec2Model ----
(***************************************************************************)
(* pydap NetCDF handler: NetCDFHandler.__init__ (the dataset builder) and  *)
(* LazyVariable (the per-access proxy), src/pydap/handlers/netcdf.         *)
(*                                                                         *)
(* Python values are modelled by small records:                            *)
(*   a dimension registry entry  [name, kind, size]   kind is "None" (the  *)
(*       scipy unlimited sentinel), "int" (a scipy fixed size) or          *)
(*       "Dimension" (a netCDF4 Dimension object); size is the current     *)
(*       length of the axis in the file;                                   *)
(*   a variable                  [name, dims, atts, base]  whose stored    *)
(*       (raw) values are base+1, base+2, ... in row-major order;          *)
(*   an attribute argument       [none, map]  (None, or a dict given as a  *)
(*       set of <<name, value>> pairs);                                    *)
(*   an outcome of a call        [ok, val, exc].                           *)
(***************************************************************************)
EXTENDS Integers, Sequences, FiniteSets, TLC

\* ------------------------------------------------------------------ bounds
MaxDims == 2
MaxSize == 2
MaxRank == 2
MaxAccesses == 2

DimNames == <<"x", "y", "z", "w">>

\* ------------------------------------------------------------ python values
Ok(v) == [ok |-> TRUE, val |-> v, exc |-> "none"]
Err(e) == [ok |-> FALSE, val |-> 0, exc |-> e]

PyNone == [none |-> TRUE, map |-> {}]
PyDict(m) == [none |-> FALSE, map |-> m]

Min(a, b) == IF a < b THEN a ELSE b
Max(a, b) == IF a > b THEN a ELSE b

\* np.arange(n): 0, 1, ..., n-1
Arange(n) == [k \in 1..n |-> k - 1]

RECURSIVE Prod(_)
Prod(s) == IF s = <<>> THEN 1 ELSE Head(s) * Prod(Tail(s))

\* "dims[dim] is None"
IsNone(d) == d.kind = "None"

\* len(dims[dim]): only a netCDF4 Dimension has __len__
PyLen(d) == IF d.kind = "Dimension" THEN Ok(d.size) ELSE Err("TypeError")

\* dims[dim].size: neither None nor an int has the attribute
SizeAttr(d) == IF d.kind = "Dimension" THEN Ok(d.size) ELSE Err("AttributeError")

\* ------------------------------------------------------------------ the file
ScaleAtts == {<<"scale_factor", 2>>, <<"add_offset", 1>>}
UnitsAtts == {<<"units", 7>>}

SeqsUpTo(S, n) == UNION {[1..k -> S] : k \in 0..n}

\* the registry of a file with k dimensions, in iteration order: the k-th
\* declared dimension is DimNames[k] and its current length shrinks with k
DimKinds(l) == IF l = "netCDF4" THEN {"Dimension"} ELSE {"None", "int"}

DimRegistries(l) ==
    UNION {{[k \in 1..n |-> [name |-> DimNames[k], kind |-> ks[k],
                             size |-> Max(1, MaxSize + 1 - k)]] :
              ks \in [1..n -> DimKinds(l)]} : n \in 0..MaxDims}

DimNamesOf(f) == {f.dims[k].name : k \in 1..Len(f.dims)}
DimOf(f, n) == f.dims[CHOOSE k \in 1..Len(f.dims) : f.dims[k].name = n]

VarNamesOf(f) == {f.vars[k].name : k \in 1..Len(f.vars)}
VarOf(f, n) == f.vars[CHOOSE k \in 1..Len(f.vars) : f.vars[k].name = n]

\* a coordinate variable: named after its dimension, one axis
CoordVar(n) == [name |-> n, dims |-> <<n>>, atts |-> UnitsAtts, base |-> 10]

\* the variables that are not coordinate variables
GridVars(ds) ==
    LET names == {ds[k].name : k \in 1..Len(ds)}
    IN  [name : {"g"}, dims : SeqsUpTo(names, MaxRank),
         atts : {{}, ScaleAtts}, base : {0}]

SecondVar(ds) ==
    [name |-> "h", dims |-> IF ds = <<>> THEN <<>> ELSE <<ds[1].name>>,
     atts |-> ScaleAtts, base |-> 100]

\* file.vars lists the coordinate variables first, then the other variables
CoordSeqs(ds) ==
    {SelectSeq([k \in 1..Len(ds) |-> CoordVar(ds[k].name)],
               LAMBDA v : v.name \in cs) :
        cs \in SUBSET {ds[k].name : k \in 1..Len(ds)}}

VarSeqs(ds) ==
    {c \o g : c \in CoordSeqs(ds),
              g \in {<<>>} \cup {<<v>> : v \in GridVars(ds)}
                           \cup {<<v, SecondVar(ds)>> : v \in GridVars(ds)}}

Files(l) ==
    UNION {[dims : {ds}, vars : VarSeqs(ds)] : ds \in DimRegistries(l)}

\* var.shape: the current lengths of the variable's dimensions
Shape(f, v) == [k \in 1..Len(v.dims) |-> DimOf(f, v.dims[k]).size]

\* the stored values of a variable, row-major
RawValues(f, v) == [k \in 1..Prod(Shape(f, v)) |-> v.base + k]

\* attrs(var): dict of the variable's netCDF attributes (either library)
attrs(v) == PyDict(v.atts)

\* --------------------------------------------------------- pydap.model nodes
NoData == [kind |-> "none", dtype |-> "", values |-> <<>>, ref |-> ""]
ArrayData(dtype, values) ==
    [kind |-> "array", dtype |-> dtype, values |-> values, ref |-> ""]
LazyData(ref) == [kind |-> "lazy", dtype |-> "", values |-> <<>>, ref |-> ref]

\* BaseType(name, data, dimensions, attributes): attributes None becomes {}
BaseType(name, data, dimensions, attributes) ==
    [type |-> "BaseType", name |-> name, data |-> data,
     dimensions |-> dimensions, attributes |-> attributes.map,
     children |-> <<>>]

\* GridType(name, attributes)
GridType(name, attributes) ==
    [type |-> "GridType", name |-> name, data |-> NoData,
     dimensions |-> <<>>, attributes |-> attributes.map, children |-> <<>>]

\* container[key] = item: a key already present is dropped and the item is
\* appended, so a container never holds two children of one name
SetItem(children, item) ==
    Append(SelectSeq(children, LAMBDA c : c.name # item.name), item)

HasKey(children, key) == \E k \in 1..Len(children) : children[k].name = key
GetItem(children, key) ==
    children[CHOOSE k \in 1..Len(children) : children[k].name = key]
Keys(children) == [k \in 1..Len(children) |-> children[k].name]

\* DatasetType(name, attributes=ncattrs)
NoDataset ==
    [created |-> FALSE, attributes |-> [NC_GLOBAL |-> {}, LastModified |-> "",
                                        DODS_EXTRA |-> <<>>],
     children |-> <<>>]
DatasetType(ncattrs) ==
    [created |-> TRUE, attributes |-> ncattrs, children |-> <<>>]

\* ------------------------------------------------------------- file handles
\* netcdf_file(filepath, 'r'): a new handle, automatic scaling on by default
OpenHandle(hs, owner) ==
    Append(hs, [open |-> TRUE, owner |-> owner, autoscale |-> TRUE, reads |-> 0])

CloseHandle(hs, h) == [hs EXCEPT ![h].open = FALSE]

\* the exit of "with netcdf_file(...) as source" in __init__, on the normal
\* path (exc = "none") and on an exception alike
BuildWithExitLeak(hs, h, exc) == IF exc = "none" THEN CloseHandle(hs, h) ELSE hs
BuildWithExit(hs, h, exc) == CloseHandle(hs, h)

\* "except Exception as exc: raise": the exception the caller sees, and
\* whether the constructor hands anything back
ExceptSwallow(filepath, exc) == [raised |-> FALSE, exc |-> "none"]
ExceptClause(filepath, exc) == [raised |-> TRUE, exc |-> exc]

\* the unlimited-dimension scan: the first dimension whose size is None
RECURSIVE ScanNoBreak(_, _, _)
ScanNoBreak(ds, k, found) ==
    IF k > Len(ds) THEN found
    ELSE ScanNoBreak(ds, k + 1, IF IsNone(ds[k]) THEN <<ds[k].name>> ELSE found)
RECURSIVE ScanFrom(_, _)
ScanFrom(ds, k) ==
    IF k > Len(ds) THEN <<>>
    ELSE IF IsNone(ds[k]) THEN <<ds[k].name>>
    ELSE ScanFrom(ds, k + 1)

ScanUnlimitedLast(ds) == ScanNoBreak(ds, 1, <<>>)
ScanUnlimited(ds) == ScanFrom(ds, 1)

\* grids = [var for var in vars_ if var not in dims]
Grids(f) == SelectSeq(f.vars, LAMBDA v : v.name \notin DimNamesOf(f))

\* vars_[dim][:] and attrs(vars_[dim]) inside "try ... except KeyError"
\* falling back to np.arange(dims[dim].size, dtype='i') and None
DimOrArange(f, n) ==
    IF n \in VarNamesOf(f)
    THEN Ok([data |-> ArrayData("var", RawValues(f, VarOf(f, n))),
             attributes |-> attrs(VarOf(f, n))])
    ELSE LET sz == SizeAttr(DimOf(f, n))
         IN  IF sz.ok
             THEN Ok([data |-> ArrayData("int32", Arange(sz.val)),
                      attributes |-> PyNone])
             ELSE Err(sz.exc)

\* the first pass: "if dim not in vars_: length = len(dims[dim]) ..."
FirstPass(f, n) ==
    IF n \notin VarNamesOf(f)
    THEN LET ln == PyLen(DimOf(f, n))
         IN  IF ln.ok
             THEN Ok([data |-> ArrayData("int64", Arange(ln.val)),
                      attributes |-> PyDict({})])
             ELSE Err(ln.exc)
    ELSE Ok([data |-> ArrayData("var", RawValues(f, VarOf(f, n))),
             attributes |-> attrs(VarOf(f, n))])

\* ------------------------------------------------------------- LazyVariable
FilePath == "data.nc"

\* LazyVariable.__init__(source, name, path, filepath); source[path] is
\* netCDF4's lookup, a scipy netcdf_file is not subscriptable
LazyVariableInit(l, f, name, path, filepath) ==
    IF l # "netCDF4" THEN Err("TypeError")
    ELSE LET var == VarOf(f, path)
         IN  Ok([filepath |-> filepath, path |-> path, dimensions |-> var.dims,
                 dtype |-> "var", ndim |-> Len(var.dims),
                 _shape |-> Shape(f, var), _reshape |-> Shape(f, var),
                 scale |-> TRUE, name |-> name,
                 size |-> Prod(Shape(f, var)), _attributes |-> var.atts])

\* the shape property
shape(p) == p._shape

\* reshape(*args): both branches record args
reshapeShape(p, args) == [p EXCEPT !._shape = args, !._reshape = args]
reshape(p, args) == [p EXCEPT !._reshape = args]

\* __len__
ProxyLen(p) == IF shape(p) = <<>> THEN Err("TypeError") ELSE Ok(shape(p)[1])

\* getncattr(attr): self._attributes[attr]
getncattr(p, attr) ==
    IF \E a \in p._attributes : a[1] = attr
    THEN Ok((CHOOSE a \in p._attributes : a[1] = attr)[2])
    ELSE Err("KeyError")

\* ----------------------------------------------------------- indexed reads
ReadErr(e) == [ok |-> FALSE, val |-> [shape |-> <<>>, values |-> <<>>], exc |-> e]

Ellipsis == [kind |-> "ellipsis", lo |-> 0, hi |-> 0]
SliceKey(lo, hi) == [kind |-> "slice", lo |-> lo, hi |-> hi]
IndexKey(n) == [kind |-> "index", lo |-> n, hi |-> 0]

KeySet ==
    {Ellipsis} \cup {k \in {SliceKey(lo, hi) : lo \in 0..MaxSize, hi \in 1..MaxSize} :
                          k.lo < k.hi}
               \cup {IndexKey(n) : n \in 0..MaxSize}

\* array[key] on the leading axis (numpy semantics: a slice is clamped to
\* the axis, an index past its end raises IndexError)
IndexArray(shp, values, key) ==
    IF key.kind = "ellipsis" THEN Ok([shape |-> shp, values |-> values])
    ELSE IF shp = <<>> THEN ReadErr("IndexError")
    ELSE LET n == shp[1]
             stride == Prod(Tail(shp))
         IN  IF key.kind = "slice"
             THEN LET lo == Min(key.lo, n)
                      hi == Max(lo, Min(key.hi, n))
                  IN  Ok([shape |-> <<hi - lo>> \o Tail(shp),
                          values |-> SubSeq(values, lo * stride + 1, hi * stride)])
             ELSE IF key.lo >= n THEN ReadErr("IndexError")
             ELSE Ok([shape |-> Tail(shp),
                      values |-> SubSeq(values, key.lo * stride + 1,
                                        (key.lo + 1) * stride)])

\* what the library hands out for a variable of a handle: the stored values,
\* or scale_factor * stored + add_offset while automatic scaling is on
Scaled(v, raw) ==
    IF ScaleAtts \subseteq v.atts THEN [k \in 1..Len(raw) |-> 2 * raw[k] + 1]
    ELSE raw

VariableValues(f, handle, v) ==
    IF handle.autoscale THEN Scaled(v, RawValues(f, v)) ELSE RawValues(f, v)

\* source.set_auto_scale(False) on the handle of this access
SkipAutoScale(hs, h) == hs
SetAutoScaleFalse(hs, h) == [hs EXCEPT ![h].autoscale = FALSE]

\* source[self.path][key]; a closed handle cannot be read
ReadReshaped(f, hs, h, p, key) ==
    IF ~hs[h].open THEN ReadErr("RuntimeError")
    ELSE IF Prod(p._reshape) # Prod(p._shape) THEN ReadErr("ValueError")
    ELSE IndexArray(p._reshape, VariableValues(f, hs[h], VarOf(f, p.path)), key)
ReadItem(f, hs, h, p, key) ==
    IF ~hs[h].open THEN ReadErr("RuntimeError")
    ELSE LET v == VarOf(f, p.path)
         IN  IndexArray(Shape(f, v), VariableValues(f, hs[h], v), key)

\* the exit of "with netcdf_file(...) as source" in __getitem__
AccessWithExitLeak(hs, h, exc) == IF exc = "none" THEN CloseHandle(hs, h) ELSE hs
AccessWithExit(hs, h, exc) == CloseHandle(hs, h)

\* -------------------------------------------------------------------- state
VARIABLES lib, file, pc, i, j, handles, src, dataset, proxies, headers, err,
          returned, acc

vars == <<lib, file, pc, i, j, handles, src, dataset, proxies, headers, err,
          returned, acc>>

Idle ==
    [pc |-> "idle", op |-> "none", n |-> 0, proxy |-> "", key |-> Ellipsis,
     h |-> 0, readOpen |-> TRUE, result |-> ReadErr("none")]

InitWith(l, f) ==
    /\ lib = l
    /\ file = f
    /\ pc = "start"
    /\ i = 1
    /\ j = 1
    /\ handles = <<>>
    /\ src = 0
    /\ dataset = NoDataset
    /\ proxies = <<>>
    /\ headers = <<>>
    /\ err = "none"
    /\ returned = FALSE
    /\ acc = Idle

\* the import at module level picks netCDF4 when present, else scipy
Init == \E l \in {"netCDF4", "scipy"} : \E f \in Files(l) : InitWith(l, f)

\* the loop position that runs next, past every exhausted loop
RECURSIVE Norm(_, _, _, _)
Norm(f, p, a, b) ==
    IF p = "dims"
    THEN IF a <= Len(f.dims) THEN <<p, a, b>> ELSE Norm(f, "grids", 1, 1)
    ELSE IF p = "grids"
    THEN IF a <= Len(Grids(f)) THEN <<p, a, b>> ELSE Norm(f, "readd", 1, 1)
    ELSE IF p = "maps"
    THEN IF b <= Len(Grids(f)[a].dims) THEN <<p, a, b>>
         ELSE Norm(f, "grids", a + 1, 1)
    ELSE IF p = "readd"
    THEN IF a <= Len(f.dims) THEN <<p, a, b>> ELSE <<"exit", 1, 1>>
    ELSE <<p, a, b>>

Goto(p, a, b) ==
    LET nx == Norm(file, p, a, b)
    IN  /\ pc' = nx[1]
        /\ i' = nx[2]
        /\ j' = nx[3]

\* an exception inside the with block: the handle is released by the with
\* statement, then the except clause decides what the caller gets
Raise(exc) ==
    LET out == ExceptClause(FilePath, exc)
    IN  /\ handles' = IF src = 0 THEN handles ELSE BuildWithExit(handles, src, exc)
        /\ err' = out.exc
        /\ returned' = ~out.raised
        /\ pc' = IF out.raised THEN "raised" ELSE "done"
        /\ UNCHANGED <<i, j, src>>

LibErrors == {"none", "RuntimeError"}

\* netcdf_file(self.filepath, 'r')
OpenFile ==
    /\ pc = "start"
    /\ \E e \in {"none", "FileNotFoundError", "OSError"} :
          IF e = "none"
          THEN /\ handles' = OpenHandle(handles, 0)
               /\ src' = Len(handles) + 1
               /\ Goto("stat", 1, 1)
               /\ UNCHANGED <<err, returned>>
          ELSE Raise(e)
    /\ UNCHANGED <<lib, file, dataset, proxies, headers, acc>>

\* os.stat(filepath), formatdate, additional_headers.append
StatFile ==
    /\ pc = "stat"
    /\ \E e \in {"none", "FileNotFoundError"} :
          IF e = "none"
          THEN /\ headers' = Append(headers, <<"Last-modified", "mtime">>)
               /\ Goto("attrs", 1, 1)
               /\ UNCHANGED <<handles, src, err, returned>>
          ELSE Raise(e) /\ UNCHANGED headers
    /\ UNCHANGED <<lib, file, dataset, proxies, acc>>

\* ncattrs = dict(NC_GLOBAL=attrs(source)); DatasetType(name, ncattrs)
CreateDataset ==
    /\ pc = "attrs"
    /\ \E e \in LibErrors :
          IF e = "none"
          THEN /\ dataset' = DatasetType([NC_GLOBAL |-> {<<"title", 1>>},
                                          LastModified |-> "mtime",
                                          DODS_EXTRA |-> <<>>])
               /\ Goto("scan", 1, 1)
               /\ UNCHANGED <<handles, src, err, returned>>
          ELSE Raise(e) /\ UNCHANGED dataset
    /\ UNCHANGED <<lib, file, proxies, headers, acc>>

\* for dim in dims: if dims[dim] is None: ... break
ScanDims ==
    /\ pc = "scan"
    /\ dataset' = [dataset EXCEPT !.attributes.DODS_EXTRA = ScanUnlimited(file.dims)]
    /\ Goto("dims", 1, 1)
    /\ UNCHANGED <<lib, file, handles, src, proxies, headers, err, returned, acc>>

\* one turn of "for dim in dims" (add dimensions to dataset)
AddDimension ==
    /\ pc = "dims"
    /\ LET n == file.dims[i].name
           got == FirstPass(file, n)
       IN  \E e \in LibErrors :
              IF e = "none" /\ got.ok
              THEN /\ dataset' = [dataset EXCEPT !.children =
                          SetItem(@, BaseType(n, got.val.data, <<>>,
                                              got.val.attributes))]
                   /\ Goto("dims", i + 1, 1)
                   /\ UNCHANGED <<handles, src, err, returned>>
              ELSE /\ e = "none" => ~got.ok
                   /\ e # "none" => n \in VarNamesOf(file)
                   /\ Raise(IF e = "none" THEN got.exc ELSE e)
                   /\ UNCHANGED dataset
    /\ UNCHANGED <<lib, file, proxies, headers, acc>>

\* self.dataset[grid][dim] = item: the grid node itself is updated in place
SetInGrid(children, grid, item) ==
    [k \in 1..Len(children) |->
        IF children[k].name = grid
        THEN [children[k] EXCEPT !.children = SetItem(@, item)]
        ELSE children[k]]

\* one turn of "for grid in grids": the grid node, the proxy, the data array
AddGrid ==
    /\ pc = "grids"
    /\ LET v == Grids(file)[i]
           node == GridType(v.name, attrs(v))
           lz == LazyVariableInit(lib, file, v.name, v.name, FilePath)
       IN  \E e \in LibErrors :
              IF e = "none" /\ lz.ok
              THEN /\ dataset' = [dataset EXCEPT !.children =
                          SetInGrid(SetItem(@, node), v.name,
                                    BaseType(v.name, LazyData(v.name), v.dims,
                                             attrs(v)))]
                   /\ proxies' = proxies @@ (v.name :> lz.val)
                   /\ Goto("maps", i, 1)
                   /\ UNCHANGED <<handles, src, err, returned>>
              ELSE /\ e # "none" => lz.ok
                   /\ dataset' = [dataset EXCEPT !.children = SetItem(@, node)]
                   /\ Raise(IF e = "none" THEN lz.exc ELSE e)
                   /\ UNCHANGED proxies
    /\ UNCHANGED <<lib, file, headers, acc>>

\* one turn of "for dim in vars_[grid].dimensions" (add maps)
AddMap ==
    /\ pc = "maps"
    /\ LET v == Grids(file)[i]
           n == v.dims[j]
           got == DimOrArange(file, n)
       IN  \E e \in LibErrors :
              IF e = "none" /\ got.ok
              THEN /\ dataset' = [dataset EXCEPT !.children =
                          SetInGrid(@, v.name,
                                    BaseType(n, got.val.data, <<>>,
                                             got.val.attributes))]
                   /\ Goto("maps", i, j + 1)
                   /\ UNCHANGED <<handles, src, err, returned>>
              ELSE /\ e # "none" => n \in VarNamesOf(file)
                   /\ Raise(IF e = "none" THEN got.exc ELSE e)
                   /\ UNCHANGED dataset
    /\ UNCHANGED <<lib, file, proxies, headers, acc>>

\* one turn of the last "for dim in dims" (add dims)
ReAddDim ==
    /\ pc = "readd"
    /\ LET n == file.dims[i].name
           got == DimOrArange(file, n)
       IN  \E e \in LibErrors :
              IF e = "none" /\ got.ok
              THEN /\ dataset' = [dataset EXCEPT !.children =
                          SetItem(@, BaseType(n, got.val.data, <<>>,
                                              got.val.attributes))]
                   /\ Goto("readd", i + 1, 1)
                   /\ UNCHANGED <<handles, src, err, returned>>
              ELSE /\ e # "none" => n \in VarNamesOf(file)
                   /\ Raise(IF e = "none" THEN got.exc ELSE e)
                   /\ UNCHANGED dataset
    /\ UNCHANGED <<lib, file, proxies, headers, acc>>

\* the with block ends normally and __init__ returns
ExitWith ==
    /\ pc = "exit"
    /\ handles' = BuildWithExit(handles, src, "none")
    /\ pc' = "done"
    /\ returned' = TRUE
    /\ UNCHANGED <<lib, file, i, j, src, dataset, proxies, headers, err, acc>>

NextBuild ==
    \/ OpenFile
    \/ StatFile
    \/ CreateDataset
    \/ ScanDims
    \/ AddDimension
    \/ AddGrid
    \/ AddMap
    \/ ReAddDim
    \/ ExitWith

Spec == Init /\ [][NextBuild]_vars

\* ------------------------------------------------ operations on the proxies
Built == pc = "done" /\ returned

ReshapeArgs == {<<>>, <<1>>, <<MaxSize, 1>>}
AttrNames == {"scale_factor", "units"}

Done(a, result) == [a EXCEPT !.pc = "idle", !.result = result]

\* __getitem__(key), also reached through getValue and __array__ (key ...):
\* "with netcdf_file(self.filepath, 'r') as source"
AccessOpen ==
    /\ Built
    /\ acc.pc = "idle"
    /\ acc.n < MaxAccesses
    /\ \E p \in DOMAIN proxies, key \in KeySet, e \in {"none", "FileNotFoundError"} :
          LET a == [Idle EXCEPT !.op = "getitem", !.n = acc.n + 1, !.proxy = p,
                                !.key = key]
          IN  /\ Shape(file, VarOf(file, p)) = <<>> => key = Ellipsis
              /\ IF e = "none"
                 THEN /\ handles' = OpenHandle(handles, acc.n + 1)
                      /\ acc' = [a EXCEPT !.pc = "opened", !.h = Len(handles) + 1]
                 ELSE /\ handles' = handles
                      /\ acc' = Done(a, ReadErr(e))
    /\ UNCHANGED <<lib, file, pc, i, j, src, dataset, proxies, headers, err, returned>>

\* source.set_auto_scale(False)
AccessSetScale ==
    /\ acc.pc = "opened"
    /\ \E e \in LibErrors :
          IF e = "none"
          THEN /\ handles' = SetAutoScaleFalse(handles, acc.h)
               /\ acc' = [acc EXCEPT !.pc = "scaled"]
          ELSE /\ handles' = AccessWithExit(handles, acc.h, e)
               /\ acc' = Done(acc, ReadErr(e))
    /\ UNCHANGED <<lib, file, pc, i, j, src, dataset, proxies, headers, err, returned>>

\* source[self.path][key], evaluated inside the with block
AccessRead ==
    /\ acc.pc = "scaled"
    /\ LET r == ReadItem(file, handles, acc.h, proxies[acc.proxy], acc.key)
           hs == [handles EXCEPT ![acc.h].reads = @ + 1]
       IN  \E e \in LibErrors :
              IF e = "none" /\ r.ok
              THEN /\ handles' = hs
                   /\ acc' = [acc EXCEPT !.pc = "read", !.result = r,
                                         !.readOpen = handles[acc.h].open]
              ELSE /\ handles' = AccessWithExit(hs, acc.h,
                                                IF e = "none" THEN r.exc ELSE e)
                   /\ acc' = Done([acc EXCEPT !.readOpen = handles[acc.h].open],
                                  IF e = "none" THEN r ELSE ReadErr(e))
    /\ UNCHANGED <<lib, file, pc, i, j, src, dataset, proxies, headers, err, returned>>

\* "return" leaves the with block: the handle is closed, the value handed back
AccessReturn ==
    /\ acc.pc = "read"
    /\ handles' = AccessWithExit(handles, acc.h, "none")
    /\ acc' = Done(acc, acc.result)
    /\ UNCHANGED <<lib, file, pc, i, j, src, dataset, proxies, headers, err, returned>>

\* reshape(*args)
Reshape ==
    /\ Built
    /\ acc.pc = "idle"
    /\ \E p \in DOMAIN proxies, args \in ReshapeArgs :
          proxies' = [proxies EXCEPT ![p] = reshape(@, args)]
    /\ UNCHANGED <<lib, file, pc, i, j, handles, src, dataset, headers, err,
                   returned, acc>>

\* getncattr(attr) (also what __getattr__ forwards to) and len()
Lookup ==
    /\ Built
    /\ acc.pc = "idle"
    /\ \E p \in DOMAIN proxies :
          \/ \E attr \in AttrNames :
                LET r == getncattr(proxies[p], attr)
                IN  acc' = [Idle EXCEPT !.op = "getncattr", !.n = acc.n, !.proxy = p,
                               !.result = IF r.ok
                                          THEN Ok([shape |-> <<>>, values |-> <<r.val>>])
                                          ELSE ReadErr(r.exc)]
          \/ LET r == ProxyLen(proxies[p])
             IN  acc' = [Idle EXCEPT !.op = "len", !.n = acc.n, !.proxy = p,
                            !.result = IF r.ok
                                       THEN Ok([shape |-> <<>>, values |-> <<r.val>>])
                                       ELSE ReadErr(r.exc)]
    /\ UNCHANGED <<lib, file, pc, i, j, handles, src, dataset, proxies, headers,
                   err, returned>>

\* files for the access runs: every dimension declared, a variable "g" over
\* the leading dimensions (rank 0..MaxRank) and the variable "h"
AccessVars(ds) ==
    {v \in GridVars(ds) : \A k \in 1..Len(v.dims) : v.dims[k] = ds[k].name}

AccessFiles ==
    UNION {{[dims |-> ds, vars |-> <<v, SecondVar(ds)>>] : v \in AccessVars(ds)} :
              ds \in {d \in DimRegistries("netCDF4") : Len(d) = MaxDims}}

InitAccess == \E f \in AccessFiles : InitWith("netCDF4", f)

NextAccess ==
    \/ NextBuild
    \/ AccessOpen
    \/ AccessSetScale
    \/ AccessRead
    \/ AccessReturn
    \/ Reshape
    \/ Lookup

SpecAccess == InitAccess /\ [][NextAccess]_vars

\* ------------------------------------------------------------------ claims
EnvErrors == {"FileNotFoundError", "OSError", "RuntimeError"}

Finished == pc \in {"done", "raised"}

OwnedBy(n) == {h \in 1..Len(handles) : handles[h].owner = n}

ReadDone == acc.op = "getitem" /\ acc.pc \in {"read", "idle"} /\ acc.result.ok

\* C1: every indexed access opens one new handle (none when the open itself
\* raises), reads only on that handle while it is open, and has closed it
\* when the call returns or raises; between accesses no access handle is
\* open, and no handle belongs to, or is read by, two accesses.
C1_HandlePerAccess ==
    /\ \A h \in 1..Len(handles) :
          handles[h].owner >= 1 =>
             /\ handles[h].reads <= 1
             /\ handles[h].open => (acc.pc # "idle" /\ acc.h = h)
             /\ OwnedBy(handles[h].owner) = {h}
    /\ acc.op = "getitem" =>
          Cardinality(OwnedBy(acc.n)) = IF acc.h = 0 THEN 0 ELSE 1
    /\ acc.pc \in {"opened", "scaled", "read"} =>
          /\ handles[acc.h].open
          /\ handles[acc.h].owner = acc.n
    /\ acc.readOpen

\* a second access whose read failed after its handle was opened, now over
C1_Witness ==
    /\ acc.pc = "idle" /\ acc.op = "getitem" /\ acc.n = 2
    /\ acc.h # 0 /\ ~acc.result.ok
    /\ handles[acc.h].reads = 1
    /\ Cardinality(OwnedBy(1)) = 1

\* C2: when __init__ finishes, by return or by an exception at any build
\* step, the handle it opened is closed, and the build (LazyVariable
\* construction included) never opened a second handle.
C2_BuildReleasesHandle ==
    /\ Cardinality(OwnedBy(0)) <= 1
    /\ OwnedBy(0) = IF src = 0 THEN {} ELSE {src}
    /\ Finished => \A h \in OwnedBy(0) : ~handles[h].open

\* the build failed after a proxy had been constructed
C2_Witness == pc = "raised" /\ src # 0 /\ DOMAIN proxies # {}

\* C3: in every indexed access automatic scaling is switched off on the new
\* handle before the read, and the values returned are the stored values,
\* whatever scale attributes the variable declares.
C3_RawValues ==
    /\ acc.pc \in {"scaled", "read"} => ~handles[acc.h].autoscale
    /\ \A h \in 1..Len(handles) :
          (handles[h].owner >= 1 /\ handles[h].reads > 0) => ~handles[h].autoscale
    /\ ReadDone =>
          LET v == VarOf(file, acc.proxy)
          IN  acc.result.val.values =
                 IndexArray(Shape(file, v), RawValues(file, v), acc.key).val.values

\* a second access returned values of a variable that declares scaling
C3_Witness ==
    /\ ReadDone /\ acc.pc = "idle" /\ acc.n = 2
    /\ ScaleAtts \subseteq VarOf(file, acc.proxy).atts
    /\ acc.result.val.values # <<>>

\* C4: a failure of the build reaches the caller as an OpenFileError.
C4_OpenFileError == pc = "raised" => err = "OpenFileError"

\* C5: for every dimension without a variable of its name, the unlimited
\* (None) one included, the build succeeds and the root ends with the array
\* 0..length-1 and an empty attribute mapping under the dimension's name.
C5_SynthesizedDimension ==
    (Finished /\ err \notin EnvErrors) =>
       \A k \in 1..Len(file.dims) :
          file.dims[k].name \notin VarNamesOf(file) =>
             /\ pc = "done"
             /\ HasKey(dataset.children, file.dims[k].name)
             /\ GetItem(dataset.children, file.dims[k].name).data.values
                   = Arange(file.dims[k].size)
             /\ GetItem(dataset.children, file.dims[k].name).attributes = {}

\* C6: after a successful build the dimension list of every grid's data
\* array equals the sequence of the grid's coordinate-array keys.
C6_GridDimensionsAreMapKeys ==
    pc = "done" =>
       \A k \in 1..Len(dataset.children) :
          LET node == dataset.children[k]
          IN  node.type = "GridType" =>
                 GetItem(node.children, node.name).dimensions
                    = SelectSeq(Keys(node.children), LAMBDA n : n # node.name)

FirstUnbounded(ds) ==
    LET U == {k \in 1..Len(ds) : ds[k].kind = "None"}
    IN  IF U = {} THEN <<>>
        ELSE <<ds[CHOOSE k \in U : \A m \in U : k <= m].name>>

\* C7: once the dimension scan has run, and to the end of the build, the
\* root's DODS_EXTRA names no dimension when none is unbounded and otherwise
\* exactly the first unbounded dimension of the registry.
C7_UnlimitedMarker ==
    (dataset.created /\ pc \notin {"attrs", "scan"}) =>
       /\ Len(dataset.attributes.DODS_EXTRA) <= 1
       /\ dataset.attributes.DODS_EXTRA = FirstUnbounded(file.dims)

\* a successful build of a file with two unbounded dimensions
C7_Witness ==
    /\ pc = "done"
    /\ Cardinality({k \in 1..Len(file.dims) : file.dims[k].kind = "None"}) >= 2

\* the tree holds an array for every dimension and, for every other
\* variable, a grid with its data array and a map for each of its dimensions
Complete(ds) ==
    /\ ds.created
    /\ \A k \in 1..Len(file.dims) :
          /\ HasKey(ds.children, file.dims[k].name)
          /\ GetItem(ds.children, file.dims[k].name).type = "BaseType"
    /\ \A k \in 1..Len(Grids(file)) :
          LET v == Grids(file)[k]
          IN  /\ HasKey(ds.children, v.name)
              /\ GetItem(ds.children, v.name).type = "GridType"
              /\ HasKey(GetItem(ds.children, v.name).children, v.name)
              /\ \A m \in 1..Len(v.dims) :
                    HasKey(GetItem(ds.children, v.name).children, v.dims[m])

\* C8: a build that fails hands nothing back; whatever is handed back is a
\* complete tree.
C8_NoPartialDataset ==
    /\ pc = "raised" => ~returned
    /\ returned => (pc = "done" /\ err = "none" /\ Complete(dataset))

\* the build failed with a tree that lacks some of its nodes
C8_Witness ==
    /\ pc = "raised" /\ ~returned
    /\ dataset.created /\ dataset.children # <<>>
    /\ ~Complete(dataset)

\* the read of (path, key) made as the first operation on a new proxy
FirstRead(p, key) ==
    LET made == LazyVariableInit(lib, file, p, p, FilePath).val
        hs == SetAutoScaleFalse(OpenHandle(<<>>, 1), 1)
    IN  ReadItem(file, hs, 1, made, key)

\* C9: a read that reached the file and met no input/output error gives what
\* the same read gives as the first operation on the proxy, whatever reads,
\* failed reads, reshape calls and lookups came before.
C9_HistoryIndependent ==
    (/\ acc.op = "getitem" /\ acc.pc \in {"read", "idle"}
     /\ acc.h # 0 /\ handles[acc.h].reads = 1
     /\ acc.result.exc \notin EnvErrors)
       => acc.result = FirstRead(acc.proxy, acc.key)

\* a read after a failed access and after a reshape of the same proxy
C9_Witness ==
    /\ ReadDone /\ acc.pc = "idle" /\ acc.n = 2
    /\ \E h \in OwnedBy(1) : handles[h].autoscale
    /\ proxies[acc.proxy]._reshape # proxies[acc.proxy]._shape
    /\ acc.result.val.values # <<>>

\* C10: reshape leaves every field of the proxy but _reshape as it was at
\* construction, and with them shape, len() and the shape of what a read
\* returns.
C10_ReshapeFrame ==
    \A p \in DOMAIN proxies :
       LET made == LazyVariableInit(lib, file, p, p, FilePath).val
           v == VarOf(file, p)
       IN  /\ [proxies[p] EXCEPT !._reshape = made._reshape] = made
           /\ shape(proxies[p]) = Shape(file, v)
           /\ ProxyLen(proxies[p]) = ProxyLen(made)
           /\ (ReadDone /\ acc.proxy = p) =>
                 acc.result.val.shape =
                    IndexArray(Shape(file, v), RawValues(file, v), acc.key).val.shape

\* a read of a proxy whose recorded alternate shape differs from its shape
C10_Witness ==
    /\ ReadDone /\ acc.pc = "idle"
    /\ proxies[acc.proxy]._reshape # proxies[acc.proxy]._shape
    /\ acc.result.val.shape # <<>>

====
